---- MODULE Spec2Model ----
(***************************************************************************)
(* Conversation state machine of the Book Chatbot clients.                 *)
(*                                                                         *)
(* Two clients share one backend contract:                                 *)
(*   - the vanilla client, class BookChatbot        (src/web/script.js)    *)
(*   - the React client, App + useChat + useBooks   (src/react-frontend,   *)
(*     src/unnamed/part_000)                                               *)
(* The variable `client` selects which of the two programs is running; the *)
(* actions of the other one are disabled.                                  *)
(*                                                                         *)
(* Every handler runs to its next await as one atomic step (JavaScript's   *)
(* run-to-completion); the continuation after the await is a second step,  *)
(* taken when the response of the request arrives.                         *)
(*                                                                         *)
(* A handler can run whenever the control that triggers it exists: the     *)
(* loading overlays are presentation and guard nothing in the code.        *)
(*                                                                         *)
(* The status monitor (checkAPIStatus, the online/offline events, useAPI)  *)
(* shares no state with the conversation: it has a specification of its    *)
(* own, StatusSpec, in which the conversation rests in its initial state,  *)
(* as the monitor rests in Spec. The rendering of one message text         *)
(* (formatMessage, makeBookTitlesClickable, Message) is a function of the   *)
(* text and its intent: FormatSpec draws a text and renders it once.       *)
(* StarsSpec draws a rating and hands it to one of the star renderers.     *)
(*                                                                         *)
(* Texts are sequences of tokens; the token " " is a whitespace character. *)
(* Transcript entries and requests carry history tags (turn, gen, epoch,   *)
(* clears) that the program does not store; they only name which turn or   *)
(* lookup an entry or a response belongs to.                               *)
(***************************************************************************)
EXTENDS Integers, Sequences, FiniteSets, TLC

\* ------------------------------------------------------------------ bounds
MaxOps == 3   \* accepted sends + lookups + clearChat/newSession calls per run
MaxProbes == 3 \* health probes started per run
MaxTitleLen == 3 \* characters of the emphasised title in a rendered text
MaxRatingTenths == 150 \* largest rating handed to a star renderer, in tenths

\* ------------------------------------------------------------ input sets
Clients    == {"vanilla", "react"}
TypedTexts == {<<" ">>, <<"Show me bestsellers", " ">>}
ActionIds  == {"bestsellers", "unknown"}
Titles     == {"1984", "Dune"}
Intents    == {"recommend_books", "general"}
ChatKinds  == {"ok", "network", "http", "notjson", "noresponse"}
BookKinds  == {"ok", "network", "http", "notjson", "nobook"}

\* ------------------------------------------------------------- text values
EmptyText      == << >>
Undefined      == <<"<undefined>">>
GreetingText   == <<"Hello! I'm your personal book assistant.">>
NewSessionText == <<"New session started! How can I help you with books today?">>
FallbackText   == <<"Sorry, I encountered an error. Please try again.">>
ReplyText      == <<"reply">>
NotFoundText(title) == <<"Sorry, I couldn't find details for", title>>

VARIABLES
  client,        \* which program runs
  sessionId,     \* BookChatbot.sessionId / useChat sessionId
  isLoading,     \* BookChatbot.isLoading / useChat isLoading state
  appLoading,    \* App isLoading state (React only)
  mutLoading,    \* sendMessageMutation.isLoading (React only)
  curMut,        \* turn of the mutation the useMutation observer follows
  input,         \* #messageInput value / ChatArea inputValue
  transcript,    \* #chatMessages children / useChat messages
  chatReqs,      \* POST /chat requests in flight
  bookReqs,      \* POST /book-details requests in flight
  modalOpen,     \* #bookModal has class show / App isModalOpen
  selectedBook,  \* content of the modal / App selectedBook
  turns,         \* number of accepted sends so far
  lookups,       \* number of lookups started so far
  ops,           \* number of accepted sends, lookups and resets so far
  clears,        \* number of clearChat calls so far
  newSessions,   \* number of newSession calls so far
  last,          \* history: the handler that ran last
  online,        \* #statusText reads 'Online' / useAPI isOnline
  probes,        \* GET /health requests in flight
  probeSeq,      \* number of health probes started so far
  statusLast,    \* history: the status event that ran last
  raw,           \* the text of the message being rendered
  rawTitle,      \* history: the title that raw holds between ** and **
  msgIntent,     \* the intent the backend reported with the text
  html,          \* innerHTML of .message-text / the source Message renders
  refs,          \* titles of the clickable book references, in order
  phase,         \* "none", "raw" (text drawn), "rendered" (by the client),
                 \* "added" (by addMessage alone) or "formatted" (by
                 \* Message.formatMessage alone)
  rating,        \* the number handed to a star renderer, in tenths
  glyphs         \* what the star renderer made of it

chatVars == <<client, sessionId, isLoading, appLoading, mutLoading, curMut,
              input, transcript, chatReqs, bookReqs, modalOpen, selectedBook,
              turns, lookups, ops, clears, newSessions, last>>

statusVars == <<online, probes, probeSeq, statusLast>>

fmtVars == <<raw, rawTitle, msgIntent, html, refs, phase>>

\* what the handlers of the conversation never touch
starVars == <<rating, glyphs>>

auxVars == <<statusVars, fmtVars, starVars>>

vars == <<chatVars, statusVars, fmtVars, starVars>>

NoBook == "<none>"

\* ---------------------------------------------------------------- helpers
RECURSIVE TrimStart(_)
TrimStart(s) == IF s # << >> /\ Head(s) = " " THEN TrimStart(Tail(s)) ELSE s

RECURSIVE TrimEnd(_)
TrimEnd(s) ==
  IF s # << >> /\ s[Len(s)] = " " THEN TrimEnd(SubSeq(s, 1, Len(s) - 1)) ELSE s

\* String.prototype.trim
Trim_Nothing(s) == s

Trim(s) == TrimEnd(TrimStart(s))

\* the switch of handleQuickAction; '' when no case matches
QuickMessage(action) ==
  CASE action = "search"       -> <<"Search for books">>
    [] action = "recommend"    -> <<"Recommend me some books">>
    [] action = "bestsellers"  -> <<"Show me bestsellers">>
    [] action = "new-releases" -> <<"Show me new releases">>
    [] action = "price"        -> <<"Check book prices">>
    [] action = "rating"       -> <<"Check book ratings">>
    [] OTHER                   -> EmptyText

\* a transcript entry; turn is history (0 for entries of no chat turn)
Msg(sender, text, intent, turn) ==
  [sender |-> sender, text |-> text, intent |-> intent, turn |-> turn]

Greeting      == Msg("bot", GreetingText, "none", 0)
NewSessionMsg == Msg("bot", NewSessionText, "none", 0)

Last(op, id, kind) == [op |-> op, id |-> id, kind |-> kind]

\* how a request ended, as the history remembers it
Outcome(kind) == IF kind = "ok" THEN "ok" ELSE "failed"

\* Date.now() + random suffix: a value no earlier call returned
generateSessionId(prev) == prev + 1

StatusLast(op, seq, kind, raised) ==
  [op |-> op, seq |-> seq, kind |-> kind, raised |-> raised]

\* the status monitor at rest
StatusIdle ==
  /\ online = TRUE
  /\ probes = {}
  /\ probeSeq = 0
  /\ statusLast = StatusLast("init", 0, "", FALSE)

\* no message is being rendered
FormatIdle ==
  /\ raw = << >>
  /\ rawTitle = << >>
  /\ msgIntent = "none"
  /\ html = << >>
  /\ refs = << >>
  /\ phase = "none"

\* the glyphs a star renderer returned, or the error it raised
Stars(by, full, half, empty, error) ==
  [by |-> by, full |-> full, half |-> half, empty |-> empty, error |-> error]

\* no star renderer has run
StarsIdle ==
  /\ rating = 0
  /\ glyphs = Stars("none", 0, 0, 0, FALSE)

ChatInit ==
  /\ client \in Clients
  /\ sessionId = 1
  /\ isLoading = FALSE
  /\ appLoading = FALSE
  /\ mutLoading = FALSE
  /\ curMut = 0
  /\ input = EmptyText
  /\ transcript = <<Greeting>>
  /\ chatReqs = {}
  /\ bookReqs = {}
  /\ modalOpen = FALSE
  /\ selectedBook = NoBook
  /\ turns = 0
  /\ lookups = 0
  /\ ops = 0
  /\ clears = 0
  /\ newSessions = 0
  /\ last = Last("init", 0, "")

Init == ChatInit /\ StatusIdle /\ FormatIdle /\ StarsIdle

\* ----------------------------------------------------- backend outcomes
\* what the backend (or the network) does to one POST /chat
ChatOutcomes ==
  {[kind |-> "ok", response |-> ReplyText, intent |-> i] : i \in Intents}
  \cup {[kind |-> k, response |-> Undefined, intent |-> "none"] :
          k \in ChatKinds \ {"ok"}}

\* fetch rejects (network), response.ok is false (http), or response.json()
\* rejects (notjson)
callAPIThrows(kind) == kind \in {"network", "http", "notjson"}

\* text.replace(...) on a value that is not a string raises a TypeError
formatMessageThrows(text) == text = Undefined

\* bookData.book.title on a payload without book raises a TypeError
displayBookModalThrows(kind) == kind = "nobook"

ChatRequest(turn, message) ==
  [turn |-> turn, message |-> message, session_id |-> sessionId,
   epoch |-> newSessions, clears |-> clears, attempt |-> 1]

BookRequest(gen, title) == [gen |-> gen, title |-> title]

\* the /chat requests in flight once request r has settled with outcome o:
\* neither client issues the request again, whatever the outcome
PendingAfterSettle_Retry(r, o) ==
  IF o.kind = "ok"
  THEN chatReqs \ {r}
  ELSE (chatReqs \ {r}) \cup {[r EXCEPT !.attempt = @ + 1]}

PendingAfterSettle(r, o) == chatReqs \ {r}

\* --------------------------------------------------------- shared actions
\* the user edits the text field
TypeInput(t) ==
  /\ UNCHANGED auxVars
  /\ input' = t
  /\ UNCHANGED <<last, client, sessionId, isLoading, appLoading, mutLoading, curMut,
                 transcript, chatReqs, bookReqs, modalOpen, selectedBook,
                 turns, lookups, ops, newSessions, clears>>

\* ------------------------------------------------- vanilla: BookChatbot
\* addMessage: the new entry becomes the last child of #chatMessages
addMessage_Prepend(entries, msg) == <<msg>> \o entries

addMessage(entries, msg) == Append(entries, msg)

\* the condition under which sendMessage goes on (script.js:92, negated)
SendGuard_NoBusyCheck(message, loading) == message # EmptyText

SendGuard(message, loading) == message # EmptyText /\ ~loading

\* sendMessage up to its await, reading `inp` from #messageInput
SendMessageBody(inp, op) ==
  LET message == Trim(inp) IN
  IF ~SendGuard(message, isLoading)
  THEN /\ input' = inp
       /\ last' = Last(op, 0, "ignored")
       /\ UNCHANGED <<transcript, isLoading, chatReqs, turns, ops>>
  ELSE /\ ops < MaxOps
       /\ ops' = ops + 1
       /\ transcript' = addMessage(transcript, Msg("user", message, "none", turns + 1))
       /\ input' = EmptyText
       /\ isLoading' = TRUE
       /\ chatReqs' = chatReqs \cup {ChatRequest(turns + 1, message)}
       /\ turns' = turns + 1
       /\ last' = Last(op, turns + 1, "accepted")

\* Enter key or send button
BookChatbot_sendMessage ==
  /\ UNCHANGED auxVars
  /\ client = "vanilla"
  /\ SendMessageBody(input, "sendMessage")
  /\ UNCHANGED <<client, sessionId, appLoading, mutLoading, curMut, bookReqs,
                 modalOpen, selectedBook, lookups, newSessions, clears>>

\* a quick-action button
BookChatbot_handleQuickAction(action) ==
  /\ UNCHANGED auxVars
  /\ client = "vanilla"
  /\ IF QuickMessage(action) # EmptyText
     THEN SendMessageBody(QuickMessage(action), "quickAction")
     ELSE /\ last' = Last("quickAction", 0, "nomessage")
          /\ UNCHANGED <<input, transcript, isLoading, chatReqs, turns, ops>>
  /\ UNCHANGED <<client, sessionId, appLoading, mutLoading, curMut, bookReqs,
                 modalOpen, selectedBook, lookups, newSessions, clears>>

\* the bot entry sendMessage appends once callAPI('/chat') has settled
ChatReplyMsg_DropsIntent(r, o) ==
  IF callAPIThrows(o.kind) \/ formatMessageThrows(o.response)
  THEN Msg("bot", FallbackText, "none", r.turn)
  ELSE Msg("bot", o.response, "none", r.turn)

ChatReplyMsg(r, o) ==
  IF callAPIThrows(o.kind) \/ formatMessageThrows(o.response)
  THEN Msg("bot", FallbackText, "none", r.turn)
  ELSE Msg("bot", o.response, o.intent, r.turn)

\* sendMessage after its await: try block from hideLoading on, or catch
BookChatbot_chatSettled(r, o) ==
  /\ UNCHANGED auxVars
  /\ client = "vanilla"
  /\ r \in chatReqs
  /\ chatReqs' = PendingAfterSettle(r, o)
  /\ isLoading' = FALSE
  /\ transcript' = addMessage(transcript, ChatReplyMsg(r, o))
  /\ last' = Last("chatSettled", r.turn, Outcome(o.kind))
  /\ UNCHANGED <<client, sessionId, appLoading, mutLoading, curMut, input,
                 bookReqs, modalOpen, selectedBook, turns, lookups, ops,
                 newSessions, clears>>

\* showBookDetails up to its await
BookChatbot_showBookDetails(title) ==
  /\ UNCHANGED auxVars
  /\ client = "vanilla"
  /\ ops < MaxOps
  /\ ops' = ops + 1
  /\ isLoading' = TRUE
  /\ bookReqs' = bookReqs \cup {BookRequest(lookups + 1, title)}
  /\ lookups' = lookups + 1
  /\ last' = Last("showBookDetails", lookups + 1, title)
  /\ UNCHANGED <<client, sessionId, appLoading, mutLoading, curMut, input,
                 transcript, chatReqs, modalOpen, selectedBook, turns,
                 newSessions, clears>>

\* showBookDetails after its await
BookChatbot_bookSettled(r, kind) ==
  /\ UNCHANGED auxVars
  /\ client = "vanilla"
  /\ r \in bookReqs
  /\ bookReqs' = bookReqs \ {r}
  /\ isLoading' = FALSE
  /\ IF callAPIThrows(kind) \/ displayBookModalThrows(kind)
     THEN /\ transcript' = addMessage(transcript,
                                  Msg("bot", NotFoundText(r.title), "none", 0))
          /\ UNCHANGED <<modalOpen, selectedBook>>
     ELSE /\ selectedBook' = r.title
          /\ modalOpen' = TRUE
          /\ UNCHANGED transcript
  /\ last' = Last("bookSettled", r.gen, Outcome(kind))
  /\ UNCHANGED <<client, sessionId, appLoading, mutLoading, curMut, input,
                 chatReqs, turns, lookups, ops, newSessions, clears>>

\* the close control belongs to the modal: it is used while the modal shows
BookChatbot_closeModal ==
  /\ UNCHANGED auxVars
  /\ client = "vanilla"
  /\ modalOpen
  /\ modalOpen' = FALSE
  /\ last' = Last("closeModal", 0, "")
  /\ UNCHANGED <<client, sessionId, isLoading, appLoading, mutLoading, curMut,
                 input, transcript, chatReqs, bookReqs, selectedBook, turns,
                 lookups, ops, newSessions, clears>>

\* what clearChat leaves in #chatMessages: innerHTML is assigned, so every
\* earlier entry is gone
ClearedTranscript_KeepsEntries == Append(transcript, Greeting)

ClearedTranscript == <<Greeting>>

BookChatbot_clearChat ==
  /\ UNCHANGED auxVars
  /\ client = "vanilla"
  /\ ops < MaxOps
  /\ ops' = ops + 1
  /\ transcript' = ClearedTranscript
  /\ clears' = clears + 1
  /\ last' = Last("clearChat", 0, "")
  /\ UNCHANGED <<client, sessionId, isLoading, appLoading, mutLoading, curMut,
                 input, chatReqs, bookReqs, modalOpen, selectedBook, turns,
                 lookups, newSessions>>

BookChatbot_newSession ==
  /\ UNCHANGED auxVars
  /\ client = "vanilla"
  /\ ops < MaxOps
  /\ ops' = ops + 1
  /\ sessionId' = generateSessionId(sessionId)
  /\ transcript' = addMessage(ClearedTranscript, NewSessionMsg)
  /\ newSessions' = newSessions + 1
  /\ last' = Last("newSession", 0, "")
  /\ UNCHANGED <<client, isLoading, appLoading, mutLoading, curMut, input,
                 chatReqs, bookReqs, modalOpen, selectedBook, turns, lookups, clears>>

VanillaNext ==
  \/ BookChatbot_sendMessage
  \/ \E a \in ActionIds : BookChatbot_handleQuickAction(a)
  \/ \E r \in chatReqs, o \in ChatOutcomes : BookChatbot_chatSettled(r, o)
  \/ \E t \in Titles : BookChatbot_showBookDetails(t)
  \/ \E r \in bookReqs, k \in BookKinds : BookChatbot_bookSettled(r, k)
  \/ BookChatbot_closeModal
  \/ BookChatbot_clearChat
  \/ BookChatbot_newSession

\* ------------------------------------- React: App, ChatArea, useChat
\* useChat's exported isLoading (part_000:118)
chatLoading == isLoading \/ mutLoading

\* the isLoading prop App hands to ChatArea (Header.js:325)
isLoadingProp == appLoading \/ chatLoading

\* the condition under which ChatArea.handleSend goes on (ChatArea.js:157)
HandleSendGuard(inp, loading) == Trim(inp) # EmptyText /\ ~loading

\* the condition under which useChat.sendMessage goes on (part_000:82, negated)
useChat_SendGuard(message) == Trim(message) # EmptyText

\* App.handleSendMessage: setIsLoading(true), useChat.sendMessage up to the
\* await of the mutation (onMutate included); when sendMessage returns at
\* once, the finally block has already run
App_handleSendMessage(message, op) ==
  IF ~useChat_SendGuard(message)
  THEN /\ appLoading' = FALSE
       /\ last' = Last(op, 0, "ignored")
       /\ UNCHANGED <<transcript, isLoading, mutLoading, curMut, chatReqs,
                      turns, ops>>
  ELSE /\ ops < MaxOps
       /\ ops' = ops + 1
       /\ appLoading' = TRUE
       /\ transcript' = Append(transcript, Msg("user", message, "none", turns + 1))
       /\ isLoading' = TRUE
       /\ mutLoading' = TRUE
       /\ curMut' = turns + 1
       /\ chatReqs' = chatReqs \cup {ChatRequest(turns + 1, message)}
       /\ turns' = turns + 1
       /\ last' = Last(op, turns + 1, "accepted")

\* Enter key or send button
ChatArea_handleSend ==
  /\ UNCHANGED auxVars
  /\ client = "react"
  /\ IF HandleSendGuard(input, isLoadingProp)
     THEN /\ App_handleSendMessage(Trim(input), "handleSend")
          /\ input' = EmptyText
     ELSE /\ last' = Last("handleSend", 0, "ignored")
          /\ UNCHANGED <<input, appLoading, transcript, isLoading, mutLoading,
                         curMut, chatReqs, turns, ops>>
  /\ UNCHANGED <<client, sessionId, bookReqs, modalOpen, selectedBook, lookups,
                 newSessions, clears>>

\* a quick-action button of the sidebar
App_handleQuickAction(action) ==
  /\ UNCHANGED auxVars
  /\ client = "react"
  /\ IF QuickMessage(action) # EmptyText
     THEN App_handleSendMessage(QuickMessage(action), "quickAction")
     ELSE /\ last' = Last("quickAction", 0, "nomessage")
          /\ UNCHANGED <<appLoading, transcript, isLoading, mutLoading, curMut,
                         chatReqs, turns, ops>>
  /\ UNCHANGED <<client, sessionId, input, bookReqs, modalOpen, selectedBook,
                 lookups, newSessions, clears>>

\* the bot entry onSuccess or onError appends
useChat_ReplyMsg(r, o) ==
  IF callAPIThrows(o.kind)
  THEN Msg("bot", FallbackText, "none", r.turn)
  ELSE Msg("bot", o.response, o.intent, r.turn)

\* the mutation settles: onSuccess or onError, then the observer's state,
\* then the finally block of App.handleSendMessage
useChat_chatSettled(r, o) ==
  /\ UNCHANGED auxVars
  /\ client = "react"
  /\ r \in chatReqs
  /\ chatReqs' = PendingAfterSettle(r, o)
  /\ transcript' = Append(transcript, useChat_ReplyMsg(r, o))
  /\ isLoading' = FALSE
  /\ mutLoading' = IF curMut = r.turn THEN FALSE ELSE mutLoading
  /\ appLoading' = FALSE
  /\ last' = Last("chatSettled", r.turn, Outcome(o.kind))
  /\ UNCHANGED <<client, sessionId, curMut, input, bookReqs, modalOpen,
                 selectedBook, turns, lookups, ops, newSessions, clears>>

\* App.handleBookClick up to its await
App_handleBookClick(title) ==
  /\ UNCHANGED auxVars
  /\ client = "react"
  /\ ops < MaxOps
  /\ ops' = ops + 1
  /\ bookReqs' = bookReqs \cup {BookRequest(lookups + 1, title)}
  /\ lookups' = lookups + 1
  /\ last' = Last("handleBookClick", lookups + 1, title)
  /\ UNCHANGED <<client, sessionId, isLoading, appLoading, mutLoading, curMut,
                 input, transcript, chatReqs, modalOpen, selectedBook, turns,
                 newSessions, clears>>

\* what response.json() hands to setSelectedBook
BookPayload(r, kind) == IF kind = "ok" THEN r.title ELSE "<no book>"

\* App.handleBookClick after its await
App_bookSettled(r, kind) ==
  /\ UNCHANGED auxVars
  /\ client = "react"
  /\ r \in bookReqs
  /\ bookReqs' = bookReqs \ {r}
  /\ IF callAPIThrows(kind)
     THEN UNCHANGED <<modalOpen, selectedBook>>
     ELSE /\ selectedBook' = BookPayload(r, kind)
          /\ modalOpen' = TRUE
  /\ last' = Last("bookSettled", r.gen, Outcome(kind))
  /\ UNCHANGED <<client, sessionId, isLoading, appLoading, mutLoading, curMut,
                 input, transcript, chatReqs, turns, lookups, ops, newSessions, clears>>

\* BookModal, which owns the close control, is rendered while isModalOpen
App_handleCloseModal ==
  /\ UNCHANGED auxVars
  /\ client = "react"
  /\ modalOpen
  /\ modalOpen' = FALSE
  /\ selectedBook' = NoBook
  /\ last' = Last("closeModal", 0, "")
  /\ UNCHANGED <<client, sessionId, isLoading, appLoading, mutLoading, curMut,
                 input, transcript, chatReqs, bookReqs, turns, lookups, ops,
                 newSessions, clears>>

useChat_clearChat ==
  /\ UNCHANGED auxVars
  /\ client = "react"
  /\ ops < MaxOps
  /\ ops' = ops + 1
  /\ transcript' = <<Greeting>>
  /\ clears' = clears + 1
  /\ last' = Last("clearChat", 0, "")
  /\ UNCHANGED <<client, sessionId, isLoading, appLoading, mutLoading, curMut,
                 input, chatReqs, bookReqs, modalOpen, selectedBook, turns,
                 lookups, newSessions>>

useChat_newSession ==
  /\ UNCHANGED auxVars
  /\ client = "react"
  /\ ops < MaxOps
  /\ ops' = ops + 1
  /\ transcript' = <<NewSessionMsg>>
  /\ newSessions' = newSessions + 1
  /\ last' = Last("newSession", 0, "")
  /\ UNCHANGED <<client, sessionId, isLoading, appLoading, mutLoading, curMut,
                 input, chatReqs, bookReqs, modalOpen, selectedBook, turns,
                 lookups, clears>>

ReactNext ==
  \/ ChatArea_handleSend
  \/ \E a \in ActionIds : App_handleQuickAction(a)
  \/ \E r \in chatReqs, o \in ChatOutcomes : useChat_chatSettled(r, o)
  \/ \E t \in Titles : App_handleBookClick(t)
  \/ \E r \in bookReqs, k \in BookKinds : App_bookSettled(r, k)
  \/ App_handleCloseModal
  \/ useChat_clearChat
  \/ useChat_newSession

Next ==
  \/ \E t \in TypedTexts : TypeInput(t)
  \/ VanillaNext
  \/ ReactNext

Spec == Init /\ [][Next]_vars

\* a response that was requested is eventually delivered or fails
Fairness ==
  /\ WF_vars(\E r \in chatReqs, o \in ChatOutcomes :
               BookChatbot_chatSettled(r, o) \/ useChat_chatSettled(r, o))
  /\ WF_vars(\E r \in bookReqs, k \in BookKinds :
               BookChatbot_bookSettled(r, k) \/ App_bookSettled(r, k))

FairSpec == Spec /\ Fairness

\* ------------------------------------------------------------ step names
SendStep ==
  \/ BookChatbot_sendMessage
  \/ \E a \in ActionIds : BookChatbot_handleQuickAction(a)

ReactSendStep ==
  \/ ChatArea_handleSend
  \/ \E a \in ActionIds : App_handleQuickAction(a)

ChatSettledStep(r, o) ==
  BookChatbot_chatSettled(r, o) \/ useChat_chatSettled(r, o)

BookSettledStep(r, k) ==
  BookChatbot_bookSettled(r, k) \/ App_bookSettled(r, k)

\* the busy indicator each client consults before it accepts a send
Busy == IF client = "vanilla" THEN isLoading ELSE isLoadingProp

\* ------------------------------------------------------------------ C1
\* C1: in the vanilla client at most one /chat request is in flight in
\* every reachable state.
C1_OneChatInFlight == client = "vanilla" => Cardinality(chatReqs) <= 1

\* ------------------------------------------------------------------ C2
\* C2: in the vanilla client a sendMessage call made while isLoading is true
\* (send button, Enter key or quick action) leaves the transcript and the set
\* of /chat requests in flight unchanged.
C2_BusySendIsNoOp ==
  [][(client = "vanilla" /\ isLoading /\ SendStep)
       => (transcript' = transcript /\ chatReqs' = chatReqs)]_vars

\* a quick action with a message was ignored while a chat turn is in flight
C2_Witness ==
  /\ client = "vanilla"
  /\ last.op = "quickAction"
  /\ last.kind = "ignored"
  /\ isLoading
  /\ chatReqs # {}
  /\ Trim(input) # EmptyText

\* ------------------------------------------------------------------ C3
\* C3: in the React client a send requested while a chat turn awaits its
\* response (ChatArea.handleSend or a quick action) appends no message and
\* issues no /chat request.
C3_AwaitingSendIsNoOp ==
  [][(client = "react" /\ chatReqs # {} /\ ReactSendStep)
       => (transcript' = transcript /\ chatReqs' = chatReqs)]_vars

\* ------------------------------------------------------------------ C4
\* C4: whichever way a chat request fails (network error, non-2xx status,
\* body that is not JSON, JSON without a response string), exactly one bot
\* message with the fixed fallback text is appended and busy is false
\* afterwards.
C4_FailureAppendsFallback ==
  [][\A r \in chatReqs, o \in ChatOutcomes :
       (o.kind # "ok" /\ ChatSettledStep(r, o))
         => /\ transcript' = Append(transcript,
                                    Msg("bot", FallbackText, "none", r.turn))
            /\ ~isLoading']_vars

\* ------------------------------------------------------------------ C5
\* C5: the response to a /chat request that was issued before a newSession
\* appends nothing to the transcript.
C5_StaleResponseIgnored ==
  [][\A r \in chatReqs, o \in ChatOutcomes :
       (r.epoch < newSessions /\ ChatSettledStep(r, o))
         => transcript' = transcript]_vars

\* ------------------------------------------------------------------ C6
\* C6: the result of a book lookup that a later lookup has superseded is
\* discarded: it changes neither the displayed BookDetail nor the view.
C6_SupersededLookupDiscarded ==
  [][\A r \in bookReqs, k \in BookKinds :
       (r.gen < lookups /\ BookSettledStep(r, k))
         => (selectedBook' = selectedBook /\ modalOpen' = modalOpen)]_vars

\* ------------------------------------------------------------------ C7
\* C7 as stated: right after clearChat or newSession the transcript is one
\* entry, a greeting (the new-session message counted as one).
C7_ResetLeavesOneGreeting ==
  last.op \in {"clearChat", "newSession"}
    => /\ Len(transcript) = 1
       /\ transcript[1] \in {Greeting, NewSessionMsg}

\* C7 as amended: right after clearChat the transcript is exactly the
\* greeting; right after newSession it is the new-session message alone in
\* the React client, and the greeting followed by the new-session message in
\* the vanilla client. No earlier entry survives either reset.
C7_ResetLeavesOnlySyntheticEntries ==
  /\ last.op = "clearChat" => transcript = <<Greeting>>
  /\ last.op = "newSession"
       => transcript = IF client = "vanilla"
                       THEN <<Greeting, NewSessionMsg>>
                       ELSE <<NewSessionMsg>>

\* newSession of the vanilla client ran after a chat turn had added entries
C7_Witness ==
  /\ client = "vanilla"
  /\ last.op = "newSession"
  /\ turns > 0
  /\ chatReqs = {}
  /\ Len(transcript) = 2

\* ------------------------------------------------------------------ C8
\* C8: newSession replaces the session id by a different one, and no other
\* step changes it.
C8_SessionIdChangesOnNewSession ==
  [][/\ newSessions' # newSessions => sessionId' # sessionId
     /\ newSessions' = newSessions => sessionId' = sessionId]_vars

C10_TwoStateMachine ==
  /\ [][turns' # turns => (~Busy /\ Busy')]_vars
  /\ (Busy ~> ~Busy)

\* ----------------------------------------------------------------- C11
\* C11: in every state where a /chat request is in flight and neither
\* clearChat nor newSession ran since its send, the last entry of the
\* transcript is the user message of that turn.
C11_UserMessageLastWhileInFlight ==
  \A r \in chatReqs :
    (r.epoch = newSessions /\ r.clears = clears)
      => transcript[Len(transcript)] = Msg("user", r.message, "none", r.turn)

\* ----------------------------------------------------------------- C12
IsPrefix(s, t) == Len(s) <= Len(t) /\ SubSeq(t, 1, Len(s)) = s

\* C12: every step other than clearChat and newSession leaves the entries
\* the transcript already has unchanged and in place: the transcript before
\* the step is a prefix of the transcript after it.
C12_TranscriptGrowsAtTail ==
  [][(clears' = clears /\ newSessions' = newSessions)
       => IsPrefix(transcript, transcript')]_vars

\* a whole chat turn added its two entries behind the greeting, no reset
C12_Witness ==
  /\ clears = 0
  /\ newSessions = 0
  /\ last.op = "chatSettled"
  /\ Len(transcript) = 3
  /\ transcript[1] = Greeting
  /\ transcript[2].sender = "user"
  /\ transcript[3].sender = "bot"

\* ----------------------------------------------------------------- C13
\* starting a book lookup, in either client
LookupStartStep ==
  \E t \in Titles : BookChatbot_showBookDetails(t) \/ App_handleBookClick(t)

\* a send whose text is not empty, in either client
NonEmptySendStep ==
  \/ Trim(input) # EmptyText /\ (BookChatbot_sendMessage \/ ChatArea_handleSend)
  \/ \E a \in ActionIds :
       /\ QuickMessage(a) # EmptyText
       /\ BookChatbot_handleQuickAction(a) \/ App_handleQuickAction(a)

\* C13: a send with non-empty text made while a /book-details request and
\* no /chat request is pending is accepted, and neither starting a lookup
\* nor its completion changes the busy flag of the chat.
C13_LookupIsNoLock ==
  [][/\ (chatReqs = {} /\ bookReqs # {} /\ NonEmptySendStep)
          => turns' = turns + 1
     /\ (LookupStartStep \/ \E r \in bookReqs, k \in BookKinds :
                              BookSettledStep(r, k))
          => (isLoading' = isLoading /\ Busy' = Busy)]_vars

\* ----------------------------------------------------------------- C14
\* C14: while a chat turn awaits its response, a book lookup appends no
\* entry to the transcript: nothing comes between the turn's user message
\* and its bot reply.
C14_LookupAppendsNothingInTurn ==
  [][\A r \in bookReqs, k \in BookKinds :
       (chatReqs # {} /\ BookSettledStep(r, k))
         => transcript' = transcript]_vars

\* ----------------------------------------------------------------- C15
\* C15: when a /book-details request fails (network error, non-2xx status,
\* body that is not JSON, payload without a book), exactly one bot message
\* saying that no details were found for that title is appended to the
\* transcript, and the detail view is closed afterwards.
C15_LookupFailureReported ==
  [][\A r \in bookReqs, k \in BookKinds :
       (k # "ok" /\ BookSettledStep(r, k))
         => /\ transcript' = Append(transcript,
                                    Msg("bot", NotFoundText(r.title), "none", 0))
            /\ ~modalOpen']_vars

\* ----------------------------------------------------------------- C16
\* the close control of the detail view, in either client
DismissStep == BookChatbot_closeModal \/ App_handleCloseModal

\* C16: dismiss closes the detail view and clears the stored BookDetail, and
\* a successful lookup replaces the stored BookDetail by its own result.
C16_DismissClearsDetail ==
  [][/\ DismissStep => (~modalOpen' /\ selectedBook' = NoBook)
     /\ \A r \in bookReqs :
          BookSettledStep(r, "ok")
            => (modalOpen' /\ selectedBook' = r.title)]_vars

\* ----------------------------------------------------------------- C17
\* C17: a step that accepts a send issues exactly one /chat request, the
\* one of the new turn, and no other step issues any: after a turn has
\* failed no /chat request appears until the next accepted send.
C17_OneRequestPerSend ==
  [][/\ turns' = turns + 1
          => \E q \in chatReqs' :
               /\ q \notin chatReqs
               /\ q.turn = turns'
               /\ q.attempt = 1
               /\ chatReqs' = chatReqs \cup {q}
     /\ turns' = turns => chatReqs' \subseteq chatReqs]_vars

\* the only turn so far has failed and nothing is in flight
C17_Witness ==
  /\ turns = 1
  /\ last.op = "chatSettled"
  /\ last.kind = "failed"
  /\ chatReqs = {}
  /\ transcript[Len(transcript)] = Msg("bot", FallbackText, "none", 1)

\* =========================================================== status monitor
\* what the backend (or the network) does to one /health request: a 2xx
\* JSON body with status 'healthy', a 2xx JSON body with another status,
\* fetch rejects, a non-2xx status, a body that is not JSON
HealthKinds == {"healthy", "unhealthy", "network", "http", "notjson"}

\* what makes the vanilla client probe: the load of the page and the 30 s
\* interval, the page becoming visible, the browser's online event
VanillaTriggers == {"interval", "visible", "online"}

\* what makes useAPI probe: mount and the 30 s intervals, the online event
ReactTriggers == {"interval", "online"}

Probe(seq) == [seq |-> seq]

\* what a settled probe does: the status it shows, and whether an error
\* reaches the caller of checkAPIStatus
ProbeResult_StatusIgnored(kind) ==
  [online |-> ~callAPIThrows(kind), raises |-> FALSE]

ProbeResult(kind) == [online |-> kind = "healthy", raises |-> FALSE]

StatusInit ==
  /\ ChatInit
  /\ online \in (IF client = "vanilla" THEN BOOLEAN ELSE {TRUE})
  /\ probes = {}
  /\ probeSeq = 0
  /\ statusLast = StatusLast("init", 0, "", FALSE)
  /\ FormatIdle
  /\ StarsIdle

\* checkAPIStatus up to its await
BookChatbot_checkAPIStatus(trigger) ==
  /\ client = "vanilla"
  /\ probeSeq < MaxProbes
  /\ probeSeq' = probeSeq + 1
  /\ probes' = probes \cup {Probe(probeSeq + 1)}
  /\ statusLast' = StatusLast("checkAPIStatus", probeSeq + 1, trigger, FALSE)
  /\ UNCHANGED <<online, chatVars, fmtVars, starVars>>

\* checkAPIStatus after its await: try block or catch
BookChatbot_probeSettled(p, kind) ==
  /\ client = "vanilla"
  /\ p \in probes
  /\ probes' = probes \ {p}
  /\ online' = ProbeResult(kind).online
  /\ statusLast' = StatusLast("probeSettled", p.seq, kind,
                              ProbeResult(kind).raises)
  /\ UNCHANGED <<probeSeq, chatVars, fmtVars, starVars>>

\* the listener of the window's offline event
BookChatbot_offline ==
  /\ client = "vanilla"
  /\ online' = FALSE
  /\ statusLast' = StatusLast("offline", 0, "", FALSE)
  /\ UNCHANGED <<probes, probeSeq, chatVars, fmtVars, starVars>>

\* useAPI: refetch of the query 'apiHealth'; the online event sets isOnline
\* first. While a fetch of the query is in flight, refetch joins it.
useAPI_checkAPIStatus(trigger) ==
  /\ client = "react"
  /\ online' = IF trigger = "online" THEN TRUE ELSE online
  /\ IF probes # {}
     THEN /\ statusLast' = StatusLast("checkAPIStatus", 0, trigger, FALSE)
          /\ UNCHANGED <<probes, probeSeq>>
     ELSE /\ probeSeq < MaxProbes
          /\ probeSeq' = probeSeq + 1
          /\ probes' = {Probe(probeSeq + 1)}
          /\ statusLast' =
               StatusLast("checkAPIStatus", probeSeq + 1, trigger, FALSE)
  /\ UNCHANGED <<chatVars, fmtVars, starVars>>

\* useAPI: onSuccess or onError of the query
useAPI_probeSettled(p, kind) ==
  /\ client = "react"
  /\ p \in probes
  /\ probes' = probes \ {p}
  /\ online' = ProbeResult(kind).online
  /\ statusLast' = StatusLast("probeSettled", p.seq, kind,
                              ProbeResult(kind).raises)
  /\ UNCHANGED <<probeSeq, chatVars, fmtVars, starVars>>

\* useAPI: handleOffline
useAPI_handleOffline ==
  /\ client = "react"
  /\ online' = FALSE
  /\ statusLast' = StatusLast("offline", 0, "", FALSE)
  /\ UNCHANGED <<probes, probeSeq, chatVars, fmtVars, starVars>>

StatusNext ==
  \/ \E t \in VanillaTriggers : BookChatbot_checkAPIStatus(t)
  \/ \E p \in probes, k \in HealthKinds : BookChatbot_probeSettled(p, k)
  \/ BookChatbot_offline
  \/ \E t \in ReactTriggers : useAPI_checkAPIStatus(t)
  \/ \E p \in probes, k \in HealthKinds : useAPI_probeSettled(p, k)
  \/ useAPI_handleOffline

StatusSpec == StatusInit /\ [][StatusNext]_vars

ProbeSettledStep(p, k) ==
  BookChatbot_probeSettled(p, k) \/ useAPI_probeSettled(p, k)

\* ----------------------------------------------------------------- C18
\* C18: a health probe that fails (network error, non-2xx status, body that
\* is not JSON) or returns a status other than 'healthy' sets the status to
\* offline, a probe that returns 'healthy' sets it to online, and neither
\* raises an error to its caller.
C18_ProbeSetsStatus ==
  [][\A p \in probes, k \in HealthKinds :
       ProbeSettledStep(p, k)
         => /\ online' = (k = "healthy")
            /\ ~statusLast'.raised]_vars

\* a probe that returned a status other than 'healthy' has set offline
C18_Witness ==
  /\ statusLast.op = "probeSettled"
  /\ statusLast.kind = "unhealthy"
  /\ ~online
  /\ ~statusLast.raised

\* ----------------------------------------------------------------- C19
\* C19: the status changes only when the result of the probe started last
\* arrives: no other event changes it (the browser's online and offline
\* events, the result of a probe that a later probe has overtaken), and the
\* result of the probe started last sets it to that probe's outcome.
C19_StatusFromLatestProbeOnly ==
  [][/\ online' # online
          => \E p \in probes, k \in HealthKinds :
               p.seq = probeSeq /\ ProbeSettledStep(p, k)
     /\ \A p \in probes, k \in HealthKinds :
          (p.seq = probeSeq /\ ProbeSettledStep(p, k))
            => online' = (k = "healthy")]_vars

\* ======================================================= message rendering
\* A text is a sequence of characters; the markup that formatMessage writes
\* is one token per tag, which no later pattern of formatMessage can match.
Digits == {"0", "1", "2", "3", "4", "5", "6", "7", "8", "9"}

DigitVal(c) ==
  CASE c = "0" -> 0 [] c = "1" -> 1 [] c = "2" -> 2 [] c = "3" -> 3
    [] c = "4" -> 4 [] c = "5" -> 5 [] c = "6" -> 6 [] c = "7" -> 7
    [] c = "8" -> 8 [] c = "9" -> 9

Markup == {"<strong>", "</strong>", "<em>", "</em>", "<br>",
           "<book-link>", "</book-link>", "<rating-stars>", "</rating-stars>",
           "<star>", "<star-half>", "<star-empty>",
           "<price-highlight>", "</price-highlight>"}

\* d stars stand at position j of s
StarsAt(s, j, d) == j >= 1 /\ j + d - 1 <= Len(s) /\ \A k \in j..(j + d - 1) : s[k] = "*"

\* (.*?) followed by d stars: the first position from j on where d stars
\* stand, with no line break before it; 0 when there is none
RECURSIVE FindLazy(_, _, _)
FindLazy(s, j, d) ==
  IF j + d - 1 > Len(s) THEN 0
  ELSE IF StarsAt(s, j, d) THEN j
  ELSE IF s[j] = "\n" THEN 0
  ELSE FindLazy(s, j + 1, d)

\* s.replace(/\*{d}(.*?)\*{d}/g, open + '$1' + close), scanning from i
RECURSIVE ReplaceLazy(_, _, _, _, _)
ReplaceLazy(s, i, d, open, close) ==
  IF i > Len(s) THEN << >>
  ELSE LET j == IF StarsAt(s, i, d) THEN FindLazy(s, i + d, d) ELSE 0 IN
       IF j # 0
       THEN <<open>> \o SubSeq(s, i + d, j - 1) \o <<close>>
              \o ReplaceLazy(s, j + d, d, open, close)
       ELSE <<s[i]>> \o ReplaceLazy(s, i + 1, d, open, close)

\* s.replace(/\n/g, '<br>')
ReplaceBreaks_Space(s) == [k \in 1..Len(s) |-> IF s[k] = "\n" THEN " " ELSE s[k]]

ReplaceBreaks(s) == [k \in 1..Len(s) |-> IF s[k] = "\n" THEN "<br>" ELSE s[k]]

\* the first position from j on that holds a star; Len(s) + 1 when none
RECURSIVE NextStar(_, _)
NextStar(s, j) ==
  IF j > Len(s) \/ s[j] = "*" THEN j ELSE NextStar(s, j + 1)

\* s.replace(/\*\*([^*]+)\*\*/g, book-link span), scanning from i
RECURSIVE ReplaceBookLinks(_, _)
ReplaceBookLinks(s, i) ==
  IF i > Len(s) THEN << >>
  ELSE LET j == NextStar(s, i + 2) IN
       IF StarsAt(s, i, 2) /\ j > i + 2 /\ StarsAt(s, j, 2)
       THEN <<"<book-link>">> \o SubSeq(s, i + 2, j - 1) \o <<"</book-link>">>
              \o ReplaceBookLinks(s, j + 2)
       ELSE <<s[i]>> \o ReplaceBookLinks(s, i + 1)

IsDigitAt(s, i) == i >= 1 /\ i <= Len(s) /\ s[i] \in Digits

\* \d+ from the digit at i: the last position of the run of digits
RECURSIVE DigitRunEnd(_, _)
DigitRunEnd(s, i) == IF IsDigitAt(s, i + 1) THEN DigitRunEnd(s, i + 1) ELSE i

\* \d+(?:\.\d+)? from the digit at i: the last position of the number
NumberEnd(s, i) ==
  LET a == DigitRunEnd(s, i) IN
  IF a + 1 <= Len(s) /\ s[a + 1] = "." /\ IsDigitAt(s, a + 2)
  THEN DigitRunEnd(s, a + 2)
  ELSE a

\* the digits s[i..a] read as a number
RECURSIVE IntVal(_, _, _)
IntVal(s, i, a) ==
  IF a < i THEN 0 ELSE 10 * IntVal(s, i, a - 1) + DigitVal(s[a])

\* n copies of the token tok; none when n is not positive
Repeat(tok, n) == [k \in 1..n |-> tok]

\* createStarRating(parseFloat(..)) of the number whose integer part is
\* `full` and whose fraction is at least one half when `half`
createStarRating(full, half) ==
  <<"<rating-stars>">>
    \o Repeat("<star>", full)
    \o (IF half THEN <<"<star-half>">> ELSE << >>)
    \o Repeat("<star-empty>", 5 - full - (IF half THEN 1 ELSE 0))
    \o <<"</rating-stars>">>

\* s.replace(/(\d+(?:\.\d+)?)\/5/g, createStarRating), scanning from i
RECURSIVE ReplaceRatings(_, _)
ReplaceRatings(s, i) ==
  IF i > Len(s) THEN << >>
  ELSE LET a == DigitRunEnd(s, i)
           b == NumberEnd(s, i)
       IN IF IsDigitAt(s, i) /\ b + 2 <= Len(s)
               /\ s[b + 1] = "/" /\ s[b + 2] = "5"
          THEN createStarRating(IntVal(s, i, a),
                                b > a /\ DigitVal(s[a + 2]) >= 5)
                 \o ReplaceRatings(s, b + 3)
          ELSE <<s[i]>> \o ReplaceRatings(s, i + 1)

\* s.replace(/\$(\d+(?:\.\d+)?)/g, price-highlight span), scanning from i
RECURSIVE ReplacePrices(_, _)
ReplacePrices(s, i) ==
  IF i > Len(s) THEN << >>
  ELSE IF s[i] = "$" /\ IsDigitAt(s, i + 1)
       THEN <<"<price-highlight>", "$">>
              \o SubSeq(s, i + 1, NumberEnd(s, i + 1))
              \o <<"</price-highlight>">>
              \o ReplacePrices(s, NumberEnd(s, i + 1) + 1)
       ELSE <<s[i]>> \o ReplacePrices(s, i + 1)

\* BookChatbot.formatMessage: the six replacements in the order of the code
formatMessage_PricesFirst(text) ==
  LET strong == ReplaceLazy(text, 1, 2, "<strong>", "</strong>")
      em     == ReplaceLazy(strong, 1, 1, "<em>", "</em>")
      br     == ReplaceBreaks(em)
      links  == ReplaceBookLinks(br, 1)
      prices == ReplacePrices(links, 1)
  IN ReplaceRatings(prices, 1)

formatMessage(text) ==
  LET strong == ReplaceLazy(text, 1, 2, "<strong>", "</strong>")
      em     == ReplaceLazy(strong, 1, 1, "<em>", "</em>")
      br     == ReplaceBreaks(em)
      links  == ReplaceBookLinks(br, 1)
      stars  == ReplaceRatings(links, 1)
  IN ReplacePrices(stars, 1)

\* Node.textContent: the characters of the element without its markup
IsText(tok) == tok \notin Markup

TextContent(h) == SelectSeq(h, IsText)

\* the first position from j on that holds the token tok; 0 when none
RECURSIVE FindToken(_, _, _)
FindToken(h, j, tok) ==
  IF j > Len(h) THEN 0
  ELSE IF h[j] = tok THEN j ELSE FindToken(h, j + 1, tok)

\* textContent of every element opened by `open` and closed by `close`
RECURSIVE ElementTexts(_, _, _, _)
ElementTexts(h, i, open, close) ==
  LET a == FindToken(h, i, open)
      b == IF a = 0 THEN 0 ELSE FindToken(h, a + 1, close)
  IN IF b = 0 THEN << >>
     ELSE <<TextContent(SubSeq(h, a + 1, b - 1))>>
            \o ElementTexts(h, b + 1, open, close)

\* makeBookTitlesClickable: every strong element of the last message calls
\* showBookDetails(title.textContent) on a click
makeBookTitlesClickable(h) == ElementTexts(h, 1, "<strong>", "</strong>")

\* handleSpecialResponse: the titles it makes clickable
handleSpecialResponse_AnyIntent(h, intent) == makeBookTitlesClickable(h)

handleSpecialResponse(h, intent) ==
  IF intent = "search_book" \/ intent = "recommend_books"
  THEN makeBookTitlesClickable(h)
  ELSE << >>

\* the titles showBookDetails can be called with from a rendered bot reply:
\* those of the book-link spans formatMessage wrote and those of
\* handleSpecialResponse
BookReferences(h, intent) ==
  ElementTexts(h, 1, "<book-link>", "</book-link>")
    \o handleSpecialResponse(h, intent)

\* Message.formatMessage: book links first, then prices, then ratings. The
\* onclick attribute of the book-link span repeats the title; the token
\* sequence keeps the content of the span only.
Message_formatMessage(text) ==
  IF text = << >> THEN << >>
  ELSE ReplaceRatings(ReplacePrices(ReplaceBookLinks(text, 1), 1), 1)

\* ---------------------------------------------------------- rendered texts
TitleChars == {"a", "4", "/", "5", "$"}

\* the titles: 1..MaxTitleLen characters, none of them a star
TitleTexts == UNION {[1..n -> TitleChars] : n \in 1..MaxTitleLen}

\* what stands before and behind the emphasised title
Prefixes == {<< >>, <<"a", " ">>, <<"*", "a", "*", " ">>}
Suffixes == {<< >>, <<"\n", "4", ".", "5", "/", "5">>,
             <<" ", "$", "4", ".", "5", " ", "$", "4", "/", "5">>}

\* a text with exactly one title between ** and **
Emphasised(pre, title, post) ==
  pre \o <<"*", "*">> \o title \o <<"*", "*">> \o post

\* the reply of the bestsellers scenario: Try **Dune** (4.5/5) for $12.99
ScenarioTitle == <<"D", "u", "n", "e">>

ScenarioText ==
  Emphasised(<<"T", "r", "y", " ">>, ScenarioTitle,
             <<" ", "(", "4", ".", "5", "/", "5", ")", " ", "f", "o", "r",
               " ", "$", "1", "2", ".", "9", "9">>)

\* response.intent of a reply that is rendered
RenderedIntents == Intents \cup {"search_book"}

\* a bot reply has arrived: its text and intent are about to be rendered
FormatInit ==
  /\ ChatInit
  /\ StatusIdle
  /\ StarsIdle
  /\ rawTitle \in TitleTexts \cup {ScenarioTitle}
  /\ IF rawTitle = ScenarioTitle
     THEN raw = ScenarioText
     ELSE \E pre \in Prefixes, post \in Suffixes :
            raw = Emphasised(pre, rawTitle, post)
  /\ msgIntent \in RenderedIntents
  /\ html = << >>
  /\ refs = << >>
  /\ phase = "raw"

\* addMessage(response.response, 'bot', response.intent) followed by
\* handleSpecialResponse(response)
BookChatbot_render ==
  /\ client = "vanilla"
  /\ phase = "raw"
  /\ html' = formatMessage(raw)
  /\ refs' = BookReferences(formatMessage(raw), msgIntent)
  /\ phase' = "rendered"
  /\ UNCHANGED <<raw, rawTitle, msgIntent, chatVars, statusVars, starVars>>

\* Message: message.text is handed to ReactMarkdown as it is (formatMessage
\* of the component is never called); the only clickable element is the
\* BookLink that replaces a span of class book-link, which the markdown of
\* an emphasised title does not contain
Message_render ==
  /\ client = "react"
  /\ phase = "raw"
  /\ html' = raw
  /\ refs' = << >>
  /\ phase' = "rendered"
  /\ UNCHANGED <<raw, rawTitle, msgIntent, chatVars, statusVars, starVars>>

\* addMessage(text, 'bot') of a catch block: handleSpecialResponse is not
\* called for the fallback and the lookup-failure message
BookChatbot_addMessage ==
  /\ client = "vanilla"
  /\ phase = "raw"
  /\ html' = formatMessage(raw)
  /\ refs' = ElementTexts(formatMessage(raw), 1, "<book-link>", "</book-link>")
  /\ phase' = "added"
  /\ UNCHANGED <<raw, rawTitle, msgIntent, chatVars, statusVars, starVars>>

\* formatMessage of the Message component applied to the text: the function
\* is defined by the component, which renders without calling it
Message_applyFormatMessage ==
  /\ client = "react"
  /\ phase = "raw"
  /\ html' = Message_formatMessage(raw)
  /\ refs' = ElementTexts(Message_formatMessage(raw), 1,
                          "<book-link>", "</book-link>")
  /\ phase' = "formatted"
  /\ UNCHANGED <<raw, rawTitle, msgIntent, chatVars, statusVars, starVars>>

FormatNext ==
  \/ BookChatbot_render
  \/ BookChatbot_addMessage
  \/ Message_render
  \/ Message_applyFormatMessage

\* the text went through formatMessage of its client
Formatted ==
  \/ client = "vanilla" /\ phase \in {"rendered", "added"}
  \/ client = "react" /\ phase = "formatted"

FormatSpec == FormatInit /\ [][FormatNext]_vars

\* ----------------------------------------------------------------- C20
\* C20: a text that holds exactly one title between ** and **, the title
\* free of stars, is rendered with exactly one book reference, whose title
\* is the text between the stars, character for character.
C20_OneVerbatimReference ==
  phase = "rendered" => refs = <<rawTitle>>

\* ----------------------------------------------------------------- C21
\* the tokens, markup included, of every element opened by `open`
RECURSIVE ElementContents(_, _, _, _)
ElementContents(h, i, open, close) ==
  LET a == FindToken(h, i, open)
      b == IF a = 0 THEN 0 ELSE FindToken(h, a + 1, close)
  IN IF b = 0 THEN << >>
     ELSE <<SubSeq(h, a + 1, b - 1)>> \o ElementContents(h, b + 1, open, close)

\* what the rendering holds between the tags of its emphasised titles
TitleContents(h) ==
  ElementContents(h, 1, "<strong>", "</strong>")
    \o ElementContents(h, 1, "<book-link>", "</book-link>")

\* the text holds a match of the rating pattern, of the price pattern
HoldsRating(t) == ReplaceRatings(t, 1) # t
HoldsPrice(t) == ReplacePrices(t, 1) # t

\* the text was rendered in the way that turns titles into references: by
\* the vanilla client for a search_book or recommend_books reply, or by
\* formatMessage of the Message component
ReferencesMade ==
  \/ /\ client = "vanilla"
     /\ phase = "rendered"
     /\ msgIntent \in {"search_book", "recommend_books"}
  \/ client = "react" /\ phase = "formatted"

\* C21: a rating pattern N/5 or a price pattern $amount that lies inside an
\* emphasised title yields no rating and no price markup; the title is one
\* book reference, character for character.
C21_TitleTakesPrecedence ==
  (ReferencesMade /\ (HoldsRating(rawTitle) \/ HoldsPrice(rawTitle)))
    => /\ refs = <<rawTitle>>
       /\ \A k \in 1..Len(TitleContents(html)) :
            \A j \in 1..Len(TitleContents(html)[k]) :
              TitleContents(html)[k][j]
                \notin {"<rating-stars>", "<price-highlight>"}

\* ============================================================ star renderers
\* The rating is a number of tenths t, the number t/10 of the code.
\* Math.floor(rating)
fullStars(t) == t \div 10

\* rating % 1 >= 0.5
hasHalfStar_Above(t) == t % 10 > 5

hasHalfStar(t) == t % 10 >= 5

\* 5 - fullStars - (hasHalfStar ? 1 : 0)
emptyStars(t) == 5 - fullStars(t) - (IF hasHalfStar(t) THEN 1 ELSE 0)

\* how often the token tok stands in h
Count(h, tok) == Cardinality({k \in 1..Len(h) : h[k] = tok})

\* createStarRating of script.js and of the Message component: three for
\* loops, which add nothing for a count that is not positive
StringStars(by, t) ==
  LET h == createStarRating(fullStars(t), hasHalfStar(t)) IN
  Stars(by, Count(h, "<star>"), Count(h, "<star-half>"),
        Count(h, "<star-empty>"), FALSE)

\* renderStars of BookModal and Sidebar: [...Array(n)] raises a RangeError
\* for a negative n
renderStars(by, t) ==
  IF fullStars(t) < 0 \/ emptyStars(t) < 0
  THEN Stars(by, 0, 0, 0, TRUE)
  ELSE Stars(by, fullStars(t), IF hasHalfStar(t) THEN 1 ELSE 0,
             emptyStars(t), FALSE)

StarsInit ==
  /\ ChatInit
  /\ StatusIdle
  /\ FormatIdle
  /\ rating \in 0..MaxRatingTenths
  /\ glyphs = Stars("none", 0, 0, 0, FALSE)

BookChatbot_createStarRating ==
  /\ client = "vanilla"
  /\ glyphs.by = "none"
  /\ glyphs' = StringStars("createStarRating", rating)
  /\ UNCHANGED <<rating, chatVars, statusVars, fmtVars>>

Message_createStarRating ==
  /\ client = "react"
  /\ glyphs.by = "none"
  /\ glyphs' = StringStars("Message.createStarRating", rating)
  /\ UNCHANGED <<rating, chatVars, statusVars, fmtVars>>

BookModal_renderStars ==
  /\ client = "react"
  /\ glyphs.by = "none"
  /\ glyphs' = renderStars("BookModal.renderStars", rating)
  /\ UNCHANGED <<rating, chatVars, statusVars, fmtVars>>

Sidebar_renderStars ==
  /\ client = "react"
  /\ glyphs.by = "none"
  /\ glyphs' = renderStars("Sidebar.renderStars", rating)
  /\ UNCHANGED <<rating, chatVars, statusVars, fmtVars>>

StarsNext ==
  \/ BookChatbot_createStarRating
  \/ Message_createStarRating
  \/ BookModal_renderStars
  \/ Sidebar_renderStars

StarsSpec == StarsInit /\ [][StarsNext]_vars

\* ----------------------------------------------------------------- C22
\* C22: for every rating N from 0 to 5 in steps of 0.1 each star renderer
\* returns floor(N) full stars, one half star exactly when the fraction of
\* N is at least 0.5, and 5 - full - half empty stars, 5 glyphs in all;
\* 0 gives (0,0,5), 2.5 gives (2,1,2) and 5 gives (5,0,0).
C22_StarDecomposition ==
  (glyphs.by # "none" /\ rating <= 50)
    => /\ ~glyphs.error
       /\ glyphs.full = rating \div 10
       /\ glyphs.half = (IF rating % 10 >= 5 THEN 1 ELSE 0)
       /\ glyphs.empty = 5 - glyphs.full - glyphs.half
       /\ glyphs.full + glyphs.half + glyphs.empty = 5
       /\ rating = 0 => <<glyphs.full, glyphs.half, glyphs.empty>> = <<0, 0, 5>>
       /\ rating = 25 => <<glyphs.full, glyphs.half, glyphs.empty>> = <<2, 1, 2>>
       /\ rating = 50 => <<glyphs.full, glyphs.half, glyphs.empty>> = <<5, 0, 0>>

\* 2.5 was rendered as two full stars, a half star and two empty stars
C22_Witness ==
  /\ rating = 25
  /\ glyphs.by = "BookModal.renderStars"
  /\ ~glyphs.error
  /\ <<glyphs.full, glyphs.half, glyphs.empty>> = <<2, 1, 2>>

\* ----------------------------------------------------------------- C23
\* C23: for a rating above 5 every star renderer returns without an error,
\* with no empty star and 5 glyphs in all.
C23_ClampedAboveFive ==
  (glyphs.by # "none" /\ rating > 50)
    => /\ ~glyphs.error
       /\ glyphs.empty = 0
       /\ glyphs.full + glyphs.half + glyphs.empty = 5

\* ----------------------------------------------------------------- C24
\* the text of every price element of a rendering: '$' and the amount
PriceTexts(h) == ElementTexts(h, 1, "<price-highlight>", "</price-highlight>")

Token(type, text) == [type |-> type, text |-> text]

\* a run of text tokens is one text token
RECURSIVE MergeText(_)
MergeText(toks) ==
  IF Len(toks) < 2 THEN toks
  ELSE IF toks[1].type = "Text" /\ toks[2].type = "Text"
       THEN MergeText(<<Token("Text", toks[1].text \o toks[2].text)>>
                        \o SubSeq(toks, 3, Len(toks)))
       ELSE <<toks[1]>> \o MergeText(Tail(toks))

\* what the rendering h shows, element by element from position i on: a
\* title (a book reference when `clickable`, bold text otherwise), the stars
\* of a rating, a highlighted price, and characters; <br> shows the line
\* break, the tags of <em> show nothing
RECURSIVE Elements(_, _, _)
Elements(h, i, clickable) ==
  IF i > Len(h) THEN << >>
  ELSE LET closeTag == CASE h[i] = "<strong>" -> "</strong>"
                         [] h[i] = "<book-link>" -> "</book-link>"
                         [] h[i] = "<rating-stars>" -> "</rating-stars>"
                         [] h[i] = "<price-highlight>" -> "</price-highlight>"
                         [] OTHER -> ""
           j == IF closeTag = "" THEN 0 ELSE FindToken(h, i + 1, closeTag)
       IN IF j # 0
          THEN <<CASE h[i] = "<strong>" ->
                        Token(IF clickable THEN "BookReference" ELSE "Text",
                              TextContent(SubSeq(h, i + 1, j - 1)))
                   [] h[i] = "<book-link>" ->
                        Token("BookReference",
                              TextContent(SubSeq(h, i + 1, j - 1)))
                   [] h[i] = "<rating-stars>" ->
                        Token("Rating", SubSeq(h, i + 1, j - 1))
                   [] OTHER ->
                        Token("Price", SubSeq(h, i + 2, j - 1))>>
                 \o Elements(h, j + 1, clickable)
          ELSE IF h[i] = "<br>"
               THEN <<Token("Text", <<"\n">>)>> \o Elements(h, i + 1, clickable)
          ELSE IF h[i] \in Markup
               THEN Elements(h, i + 1, clickable)
          ELSE <<Token("Text", <<h[i]>>)>> \o Elements(h, i + 1, clickable)

\* the token stream of a rendering of the vanilla client
Tokens(h, intent) ==
  MergeText(Elements(h, 1,
                     intent = "search_book" \/ intent = "recommend_books"))

\* the characters a token stream shows as text
RECURSIVE TextOf(_)
TextOf(toks) ==
  IF toks = << >> THEN << >>
  ELSE (IF toks[1].type = "Text" THEN toks[1].text ELSE << >>)
         \o TextOf(Tail(toks))

\* the characters of a rendering that stand outside every title, rating and
\* price element
TextOutside(h) == TextOf(Elements(h, 1, TRUE))


\* the characters of the original text that no title, rating or price match
\* covers, in their order
Uncovered(text) ==
  TextOutside(ReplacePrices(ReplaceRatings(ReplaceBookLinks(text, 1), 1), 1))

\* the same characters without the stars of single-star emphasis
UncoveredPlain(text) ==
  TextOutside(ReplaceLazy(
    ReplacePrices(ReplaceRatings(ReplaceBookLinks(text, 1), 1), 1),
    1, 1, "<em>", "</em>"))

\* [Text("Try "), BookReference("Dune"), Text(" ("), Rating(4.5),
\*  Text(") for "), Price("12.99")]
ScenarioTokens ==
  << Token("Text", <<"T", "r", "y", " ">>),
     Token("BookReference", ScenarioTitle),
     Token("Text", <<" ", "(">>),
     Token("Rating", SubSeq(createStarRating(4, TRUE), 2, 6)),
     Token("Text", <<")", " ", "f", "o", "r", " ">>),
     Token("Price", <<"1", "2", ".", "9", "9">>) >>

\* C25 (as stated): a bot reply rendered by the vanilla client shows, as
\* text and in their order, exactly the characters of the original that no
\* rule match covers, and the scenario text with intent recommend_books
\* becomes the six tokens of ScenarioTokens.
C25_UncoveredTextUnchanged ==
  (client = "vanilla" /\ phase = "rendered")
    => /\ TextOutside(html) = Uncovered(raw)
       /\ (raw = ScenarioText /\ msgIntent = "recommend_books")
            => Tokens(html, msgIntent) = ScenarioTokens

\* C25 (amended): as above, except that the stars of a single-star emphasis
\* are not shown (the text between them is set in italics).
C25_UncoveredTextButItalics ==
  (client = "vanilla" /\ phase = "rendered")
    => /\ TextOutside(html) = UncoveredPlain(raw)
       /\ (raw = ScenarioText /\ msgIntent = "recommend_books")
            => Tokens(html, msgIntent) = ScenarioTokens

C25_Witness ==
  /\ client = "vanilla"
  /\ phase = "rendered"
  /\ raw = ScenarioText
  /\ msgIntent = "recommend_books"
  /\ Tokens(html, msgIntent) = ScenarioTokens
  /\ TextOutside(html) = Uncovered(raw)


\* ----------------------------------------------------------------- C26
\* C26: a later rule never matches text that an earlier rule consumed or
\* emitted: what formatMessage put between the tags of the title is the
\* title of the original text and nothing else, as one scan of the original
\* from left to right would leave it.
C26_NoRuleRescansOutput ==
  Formatted => TitleContents(html) = <<rawTitle>>


\* ----------------------------------------------------------------- C27
\* C27: every chat reply in the transcript, success or fallback, stands
\* after the user message of its own turn in the same transcript, also
\* after a clearChat or newSession that ran while the request was pending.
C27_ReplyAfterItsUserMessage ==
  \A i \in 1..Len(transcript) :
    (transcript[i].sender = "bot" /\ transcript[i].turn > 0)
      => \E j \in 1..(i - 1) :
           /\ transcript[j].sender = "user"
           /\ transcript[j].turn = transcript[i].turn


\* ----------------------------------------------------------------- C28
\* C28: the result of a lookup that was pending when the detail view was
\* dismissed does not reopen the view: when a lookup settles right after
\* the dismiss, the view is still closed.
C28_DismissedViewStaysClosed ==
  [][\A r \in bookReqs, k \in BookKinds :
       (last.op = "closeModal" /\ ~modalOpen /\ BookSettledStep(r, k))
         => ~modalOpen']_vars


\* ----------------------------------------------------------------- C29
\* the text is empty or holds blanks only
Blank(s) == \A k \in 1..Len(s) : s[k] = " "

\* C29: a send (send button or Enter key) whose text is empty or blank, and
\* a quick action whose id has no message, append no message, issue no
\* /chat request and leave busy as it was, in both clients.
C29_EmptySendIsNoOp ==
  [][(\/ Blank(input) /\ (BookChatbot_sendMessage \/ ChatArea_handleSend)
      \/ \E a \in ActionIds :
           /\ QuickMessage(a) = EmptyText
           /\ (BookChatbot_handleQuickAction(a) \/ App_handleQuickAction(a)))
       => /\ transcript' = transcript
          /\ chatReqs' = chatReqs
          /\ Busy' = Busy]_vars

\* a send of blanks was ignored although the client was not busy
C29_Witness ==
  /\ last.op \in {"sendMessage", "handleSend"}
  /\ last.kind = "ignored"
  /\ input = <<" ">>
  /\ ~Busy
  /\ chatReqs = {}


====
